---- MODULE Spec2Model ----
(***************************************************************************)
(* Model of the node's proxy server (vantage6/joey/node/proxy_server.py):  *)
(* the Flask routes proxy_task, proxy_results, proxy and test, which relay *)
(* the requests of algorithm containers to the central server.             *)
(*                                                                         *)
(* One inbound request is handled at a time: the handlers share no mutable *)
(* state.  Everything the handler does that is visible outside it (calls   *)
(* of the requests library, calls of the cryptor, log records) is appended *)
(* to `trace`, in program order.  The central server, the network and the  *)
(* cryptor are the environment: their outcomes are chosen with \E.         *)
(*                                                                         *)
(* Python values: ids, keys and header values are strings; None is the     *)
(* string None below (no value of the input domains equals it); a dict is  *)
(* a record, and an absent key is a field missing from its DOMAIN.  The    *)
(* `input` of an organization is a string spelled out as the sequence of   *)
(* its symbols, so that the empty string is <<>> and a ciphertext is a     *)
(* string again.                                                           *)
(***************************************************************************)
EXTENDS Integers, Sequences, FiniteSets, TLC

VARIABLES
    pc,                       \* position of the handler of the current request
    request,                  \* flask.request: method, path, headers, json, args
    auth,                     \* local `auth`
    unencrypted,              \* local `unencrypted` (proxy_task)
    organizations,            \* local `organizations` (proxy_task)
    idx,                      \* position of the for loop in `organizations`
    encrypted_organizations,  \* local `encrypted_organizations` (proxy_task)
    response,                 \* local `response`: Unbound or a requests.Response
    trace,                    \* outbound calls, cryptor calls and log records
    result,                   \* how the handler ended, as the caller sees it
    public_key,               \* central server: organization id -> its public key
    guard,                    \* server: per request, the state of only_for's decorator
    last_seen,                \* server db: authenticatable id -> last_seen
    now,                      \* server: the clock read by datetime.utcnow()
    user_rules,               \* server db: user id -> the rules of User.rules
    user_roles,               \* server db: user id -> the roles of User.roles
    role_rules,               \* server db: role -> the rules of Role.rules
    checked                   \* server: the last call of User.can and its answer

relayVars == <<pc, request, auth, unencrypted, organizations, idx,
               encrypted_organizations, response, trace, result, public_key>>

serverVars == <<guard, last_seen, now, user_rules, user_roles, role_rules, checked>>

vars == <<relayVars, serverVars>>

-----------------------------------------------------------------------------
(* Bounds and input domains *)

MaxOrgs == 2

None == "None"

\* request.get_json() of a request without a JSON body, and json=None of a call
JsonNone == [py |-> "None"]

OrgIds == {"1", "2"}
Keys == {"pubA", "pubB"}
Inputs == {<<"a">>, <<"b">>}
Tokens == {"", "tokA"}
Methods == {"GET", "POST", "PATCH", "PUT", "DELETE", "HEAD"}

SeqUpTo(S, n) == UNION {[1..k -> S] : k \in 0..n}

\* the entries of `organizations`: id and input are both optional keys, and
\* an input may be the empty string
Entries ==
    [id : OrgIds, input : Inputs]
    \cup {[id |-> "1", input |-> <<>>], [id |-> "2"], [input |-> <<"a">>]}

Payloads ==
    {[image |-> "img"]} \cup
    {[image |-> "img", organizations |-> s] : s \in SeqUpTo(Entries, MaxOrgs)}

Headers ==
    {[Host |-> "proxy"]} \cup {[Host |-> "proxy", Authorization |-> t] : t \in Tokens}

Requests ==
    [method : {"POST"}, path : {<<"task">>}, headers : Headers,
     json : Payloads, args : {"q0"}]
    \cup
    [method : {"GET", "POST"},
     path : {<<"result", "1">>, <<"result", "2">>, <<"result", "02">>},
     headers : Headers, json : {JsonNone}, args : {"q0"}]
    \cup
    [method : Methods, path : {<<"x">>, <<"task">>}, headers : Headers,
     json : {JsonNone, [data |-> "j1"]}, args : {"q0", "q1"}]
    \cup
    [method : {"GET", "POST"}, path : {<<"test", "x">>}, headers : Headers,
     json : {JsonNone}, args : {"q0"}]

-----------------------------------------------------------------------------
(* Python helpers *)

\* dict.get(key, default)
Get(d, key, default) == IF key \in DOMAIN d THEN d[key] ELSE default

\* `not d.get(key, None)`: the key is absent, or its value is the empty one
FalsyField(d, key, empty) == key \notin DOMAIN d \/ d[key] = empty

\* str.lower() on the request method
Lower(m) ==
    CASE m = "GET" -> "get"
      [] m = "POST" -> "post"
      [] m = "PATCH" -> "patch"
      [] m = "PUT" -> "put"
      [] m = "DELETE" -> "delete"
      [] m = "HEAD" -> "head"

Unbound == [bound |-> FALSE]
Pending == [kind |-> "pending"]
NoHeaders == [set |-> FALSE]
AuthHeaders(a) == [set |-> TRUE, Authorization |-> a]

Log(level, msg) == [ev |-> "log", level |-> level, msg |-> msg]
\* a call of the requests library with what came of it: NetworkError or the
\* response
Call(method, url, headers, json, params, answer) ==
    [ev |-> "call", method |-> method, url |-> url, headers |-> headers,
     json |-> json, params |-> params, answer |-> answer]
EncryptCall(input, key) == [ev |-> "encrypt", input |-> input, key |-> key]

\* the handler returned jsonify(body) / returned None / let an exception escape
Json(body) == [kind |-> "json", body |-> body]
ReturnedNone == [kind |-> "none"]
Raised(exc) == [kind |-> "raise", exc |-> exc]
MethodNotAllowed == [kind |-> "405"]

-----------------------------------------------------------------------------
(* The environment: what the central server answers *)

Statuses == {200, 201, 404}

NotJson == [shape |-> "notjson"]
JsonArray(url) == [shape |-> "array", of |-> url]
JsonObject(url, obj) == [shape |-> "object", of |-> url, obj |-> obj]

Response(status, body) == [bound |-> TRUE, status_code |-> status, body |-> body]

\* answers to an arbitrary call of `url`
Responses(url) ==
    {Response(st, b) :
        st \in Statuses,
        b \in {NotJson, JsonArray(url),
               JsonObject(url, [data |-> "d"]), JsonObject(url, [msg |-> "m"])}}

\* answers to POST /task and GET /result/{id}, whose handlers read the body only
BodyResponses(url) ==
    {Response(200, JsonObject(url, [data |-> "d"])),
     Response(404, JsonObject(url, [msg |-> "m"])),
     Response(200, JsonArray(url)),
     Response(404, NotJson)}

\* answers to GET /organization/{id}: the organization with its current key,
\* an error document without `public_key`, or a body that is no JSON object
OrganizationResponses(id, url) ==
    (IF id \in OrgIds
        THEN {Response(200, JsonObject(url, [public_key |-> public_key[id]]))}
        ELSE {})
    \cup {Response(404, JsonObject(url, [msg |-> "m"])),
          Response(404, JsonArray(url)),
          Response(404, NotJson)}

\* a requests call that raises instead of returning a response
NetworkError == [raises |-> "ConnectionError"]

\* response.json(): the parsed body, or a JSONDecodeError
JsonFails(r) == r.body.shape = "notjson"

-----------------------------------------------------------------------------
(* Flask routing: the @app.route declarations *)

\* the view function a request is dispatched to; a route declared without
\* `methods` answers GET (and HEAD) only, any other method is a 405
Route(method, path) ==
    LET reads == method \in {"GET", "HEAD"} IN
    IF path = <<"task">> /\ method = "POST" THEN "proxy_task"
    ELSE IF Len(path) = 2 /\ path[1] = "result"
        THEN (IF reads THEN "proxy_results" ELSE "405")
    ELSE IF Len(path) = 2 /\ path[1] = "test"
        THEN (IF reads THEN "test" ELSE "405")
    ELSE IF reads THEN "proxy" ELSE "405"

-----------------------------------------------------------------------------
(* The central server (vantage6-server): data *)

MaxClock == 2
MaxChecks == 2

\* the requests the server handles concurrently, each in its own context
Reqs == {"r1", "r2"}

\* Python's None where an object is expected
NoneObject == [py |-> "None"]

\* the authenticatable table: id -> polymorphic type (User: 'user')
AuthIds == {1, 2}
Authenticatable == (1 :> "user") @@ (2 :> "node")

UserIds == {id \in AuthIds : Authenticatable[id] = "user"}

\* the rule table: id -> (name, scope, operation); no two rows share a triple
RuleIds == {1, 2, 3}
Rule ==
    (1 :> <<"task", "GLOBAL", "VIEW">>) @@
    (2 :> <<"task", "ORGANIZATION", "VIEW">>) @@
    (3 :> <<"node", "GLOBAL", "VIEW">>)

Resources == {"task", "node"}
Scopes == {"GLOBAL", "ORGANIZATION"}
Operations == {"VIEW"}
Roles == {"A", "B"}

\* the decorator of a request that has not arrived
\* flask.g of a fresh application context: no attribute set
AppCtxGlobals == [ctx |-> "g"]

\* the decorator of a request that has not arrived
GuardIdle ==
    [pc |-> "idle", token |-> NoneObject, types |-> {}, g |-> AppCtxGlobals,
     identity |-> NoneObject, auth |-> NoneObject, hist |-> <<>>,
     result |-> Pending]

\* the last call of User.can and its answer; none was made yet
NotChecked == [n |-> 0]

\* the server's tables as the relay's runs find them
ServerStart ==
    /\ guard = [r \in Reqs |-> GuardIdle]
    /\ last_seen = [id \in AuthIds |-> 0]
    /\ now = 0
    /\ user_rules = [u \in UserIds |-> {1}]
    /\ user_roles = [u \in UserIds |-> {"A"}]
    /\ role_rules = [ro \in Roles |-> IF ro = "A" THEN {2} ELSE {3}]
    /\ checked = NotChecked

Init ==
    /\ ServerStart
    /\ pc = "idle"
    /\ request = [method |-> "GET", path |-> <<"x">>, headers |-> [Host |-> "proxy"],
                  json |-> JsonNone, args |-> "q0"]
    /\ auth = None
    /\ unencrypted = [image |-> "img"]
    /\ organizations = <<>>
    /\ idx = 1
    /\ encrypted_organizations = <<>>
    /\ response = Unbound
    /\ trace = <<>>
    /\ result = Pending
    /\ public_key \in [OrgIds -> Keys]

\* a request arrives and Flask dispatches it; the handler's locals start unset
Receive(req) ==
    /\ pc = "idle"
    /\ request' = req
    /\ auth' = None
    /\ unencrypted' = [image |-> "img"]
    /\ organizations' = <<>>
    /\ idx' = 1
    /\ encrypted_organizations' = <<>>
    /\ response' = Unbound
    /\ trace' = <<>>
    /\ IF Route(req.method, req.path) = "405"
          THEN pc' = "done" /\ result' = MethodNotAllowed
          ELSE pc' = Route(req.method, req.path) /\ result' = Pending
    /\ UNCHANGED <<public_key, serverVars>>

\* Flask sends the handler's result to the caller and drops the request
\* context: nothing of a request outlives it in the proxy
Respond ==
    /\ pc = "done"
    /\ pc' = "idle"
    /\ request' = [method |-> "GET", path |-> <<"x">>, headers |-> [Host |-> "proxy"],
                   json |-> JsonNone, args |-> "q0"]
    /\ auth' = None
    /\ unencrypted' = [image |-> "img"]
    /\ organizations' = <<>>
    /\ idx' = 1
    /\ encrypted_organizations' = <<>>
    /\ response' = Unbound
    /\ trace' = <<>>
    /\ result' = Pending
    /\ UNCHANGED <<public_key, serverVars>>

\* the central server replaces the public key of an organization
RotateKey(id, key) ==
    /\ key # public_key[id]
    /\ public_key' = [public_key EXCEPT ![id] = key]
    /\ UNCHANGED <<pc, request, auth, unencrypted, organizations, idx,
                   encrypted_organizations, response, trace, result, serverVars>>

\* the handler ends with result `res`, having appended `events`
Finish(res, events) ==
    /\ pc' = "done"
    /\ result' = res
    /\ trace' = trace \o events

-----------------------------------------------------------------------------
(* The cryptor (joey.node.encryption.Cryptor), an external collaborator *)

\* server_io.cryptor.encrypt(input_, public_key) when it returns: a string
\* determined by the plaintext and the key it was given
Encrypt(input_, key) == <<"enc", key>> \o input_

-----------------------------------------------------------------------------
(* proxy_task: POST /task *)

\* lines 55-77: read the credential and the body, check `organizations`.
\* The node sets app.config["SERVER_IO"] before the app serves, so the
\* assertion of line 55 holds.
proxy_task ==
    /\ pc = "proxy_task"
    /\ IF "Authorization" \notin DOMAIN request.headers
       THEN \* request.headers['Authorization'] raises (a 400 to the caller)
            /\ Finish(Raised("BadRequestKeyError"), <<>>)
            /\ UNCHANGED <<auth, unencrypted, organizations>>
       ELSE /\ auth' = request.headers.Authorization
            /\ unencrypted' = request.json
            /\ IF request.json = JsonNone
               THEN \* unencrypted.get on None
                    /\ Finish(Raised("AttributeError"), <<>>)
                    /\ UNCHANGED organizations
               ELSE IF FalsyField(request.json, "organizations", <<>>)
               THEN /\ Finish(ReturnedNone,
                              <<Log("error", "No organizations found?!")>>)
                    /\ UNCHANGED organizations
               ELSE /\ organizations' = request.json.organizations
                    /\ pc' = "loop"
                    /\ trace' = trace \o <<Log("debug", "organizations, attemping to encrypt")>>
                    /\ UNCHANGED result
    /\ UNCHANGED <<request, idx, encrypted_organizations, response, public_key, serverVars>>

\* SetInput without the assignment: the entry keeps its plaintext
SetInputKeepsPlaintext(organization, encrypted_input) == organization

\* line 94: organization["input"] = encrypted_input
SetInput(organization, encrypted_input) ==
    [organization EXCEPT !.input = encrypted_input]

\* PublicKeyOf answering with a key kept from an earlier lookup
PublicKeyKept(r) == "pubA"

\* line 91: response.json().get("public_key")
PublicKeyOf(r) == Get(r.body.obj, "public_key", None)

\* lines 78-98: one iteration of the for loop.  `lookup` is what
\* requests.get does (NetworkError or the response), `encrypts` whether the
\* cryptor returns a ciphertext or raises
proxy_task_loop(lookup, encrypts) ==
    /\ pc = "loop"
    /\ idx <= Len(organizations)
    /\ LET organization == organizations[idx]
           organization_id == Get(organization, "id", None)
           url == <<"organization", organization_id>>
           get == <<Log("debug", "retreiving public key of org"),
                    Call("get", url, NoHeaders, JsonNone, None, lookup)>>
       IN
       IF FalsyField(organization, "input", <<>>)
       THEN /\ Finish(ReturnedNone, <<Log("error", "No input for organization?!")>>)
            /\ UNCHANGED <<organizations, idx, encrypted_organizations, response>>
       ELSE IF lookup = NetworkError
       THEN /\ Finish(Raised("ConnectionError"), get)
            /\ UNCHANGED <<organizations, idx, encrypted_organizations, response>>
       ELSE /\ lookup \in OrganizationResponses(organization_id, url)
            /\ response' = lookup
            /\ IF JsonFails(lookup)
               THEN /\ Finish(Raised("JSONDecodeError"), get)
                    /\ UNCHANGED <<organizations, idx, encrypted_organizations>>
               ELSE IF lookup.body.shape # "object"
               THEN /\ Finish(Raised("AttributeError"), get)
                    /\ UNCHANGED <<organizations, idx, encrypted_organizations>>
               ELSE LET input_ == organization.input
                        key == PublicKeyOf(lookup)
                        encrypted_input == Encrypt(input_, key)
                        done == SetInput(organization, encrypted_input)
                    IN
                    IF ~encrypts
                    THEN /\ Finish(Raised("EncryptionError"),
                                   get \o <<EncryptCall(input_, key)>>)
                         /\ UNCHANGED <<organizations, idx, encrypted_organizations>>
                    ELSE /\ organizations' = [organizations EXCEPT ![idx] = done]
                         /\ encrypted_organizations' =
                                Append(encrypted_organizations, done)
                         /\ idx' = idx + 1
                         /\ pc' = IF idx = Len(organizations) THEN "post" ELSE "loop"
                         /\ trace' = trace \o get \o
                                <<EncryptCall(input_, key),
                                  Log("debug", "should be unreadable"),
                                  Log("debug", "Input succesfully encrypted")>>
                         /\ UNCHANGED result
    /\ UNCHANGED <<request, auth, unencrypted, public_key, serverVars>>

\* TaskHeaders without the header, as in the key lookup of line 88
TaskHeadersDropped(a) == NoHeaders

\* lines 104-108: headers={'Authorization': auth}
TaskHeaders(a) == AuthHeaders(a)

\* line 113 / 134 / 183 / 193: return jsonify(response.json())
ReturnJson(r) ==
    IF ~r.bound THEN Raised("UnboundLocalError")
    ELSE IF JsonFails(r) THEN Raised("JSONDecodeError")
    ELSE Json(r.body)

\* lines 100-113: post the task; `post` is NetworkError or the response
proxy_task_post(post) ==
    /\ pc = "post"
    /\ LET json_data == [unencrypted EXCEPT !.organizations = encrypted_organizations]
           url == <<"task">>
           call == Call("post", url, TaskHeaders(auth), json_data, None, post)
       IN
       /\ unencrypted' = json_data
       /\ IF post = NetworkError
          THEN /\ response' = response
               /\ Finish(ReturnJson(response),
                         <<call, Log("error", "Proxyserver was unable to post new task!"),
                           Log("debug", "exception")>>)
          ELSE /\ post \in BodyResponses(url)
               /\ response' = post
               /\ Finish(ReturnJson(post), <<call>>)
    /\ UNCHANGED <<request, auth, organizations, idx, encrypted_organizations,
                   public_key, serverVars>>

-----------------------------------------------------------------------------
(* proxy_results: GET /result/<int:id> *)

\* line 115: the <int:id> converter of the route, on the segments in use
IntConverter(segment) ==
    CASE segment = "1" -> 1
      [] segment = "2" -> 2
      [] segment = "02" -> 2

\* line 127: the id formatted into f"{url}/result/{id}"
FormatInt(n) ==
    CASE n = 1 -> "1"
      [] n = 2 -> "2"

\* ResultHeaders without the header
ResultHeadersDropped(a) == NoHeaders

\* lines 126-129: headers={'Authorization': auth}
ResultHeaders(a) == AuthHeaders(a)

\* lines 121-134; `get` is NetworkError or the response
proxy_results(get) ==
    /\ pc = "proxy_results"
    /\ IF "Authorization" \notin DOMAIN request.headers
       THEN /\ Finish(Raised("BadRequestKeyError"), <<>>)
            /\ UNCHANGED <<auth, response>>
       ELSE LET id == IntConverter(request.path[2])
                url == <<"result", FormatInt(id)>>
                call == Call("get", url, ResultHeaders(request.headers.Authorization),
                             JsonNone, None, get)
            IN
            /\ auth' = request.headers.Authorization
            /\ IF get = NetworkError
               THEN /\ response' = response
                    /\ Finish(ReturnJson(response),
                              <<call,
                                Log("error", "Proxyserver was unable to retrieve results!"),
                                Log("debug", "exception")>>)
               ELSE /\ get \in BodyResponses(url)
                    /\ response' = get
                    /\ Finish(ReturnJson(get), <<call>>)
    /\ UNCHANGED <<request, unencrypted, organizations, idx,
                   encrypted_organizations, public_key, serverVars>>

-----------------------------------------------------------------------------
(* proxy: the generic endpoint *)

\* lines 144-151: the requests function chosen for the inbound method
ProxyMethod(m) ==
    IF Lower(m) \in {"get", "post", "patch", "put", "delete"} THEN Lower(m) ELSE "get"

\* ProxyAuth with an empty default in place of None
ProxyAuthEmptyDefault(headers) == Get(headers, "Authorization", "")

\* lines 155-161: the credential, None when the header is absent
ProxyAuth(headers) == Get(headers, "Authorization", None)

\* lines 158-159: the except branch logs that no header was found
ProxyAuthLog(headers) ==
    IF "Authorization" \in DOMAIN headers THEN <<>>
    ELSE <<Log("info", "No authorization header found, this could lead to errors")>>

\* lines 179-181: what is logged for a status above 200
ProxyStatusLog(r) ==
    IF r.status_code > 200
    THEN <<Log("error", <<"server response code", r.status_code>>)>>
    ELSE <<>>

\* lines 142-183; `answer` is NetworkError or the response
proxy(answer) ==
    /\ pc = "proxy"
    /\ LET central_server_path == request.path
           method == ProxyMethod(request.method)
           a == ProxyAuth(request.headers)
           call == Call(method, central_server_path, AuthHeaders(a),
                        request.json, request.args, answer)
           before == ProxyAuthLog(request.headers) \o
                     <<Log("debug", "method, auth"), Log("info", "method | api_url"),
                       call>>
       IN
       /\ auth' = a
       /\ IF answer = NetworkError
          THEN /\ response' = response
               /\ Finish(ReturnedNone,
                         before \o
                         <<Log("error", "Proxyserver was unable to retreive endpoint..."),
                           Log("debug", "exception")>>)
          ELSE /\ answer \in Responses(central_server_path)
               /\ response' = answer
               /\ IF answer.status_code > 200 /\ JsonFails(answer)
                  THEN Finish(Raised("JSONDecodeError"), before \o ProxyStatusLog(answer))
                  ELSE IF answer.status_code > 200 /\ answer.body.shape # "object"
                  THEN Finish(Raised("AttributeError"), before \o ProxyStatusLog(answer))
                  ELSE IF answer.status_code > 200
                  THEN Finish(ReturnJson(answer),
                              before \o ProxyStatusLog(answer) \o
                              <<Log("debug", Get(answer.body.obj, "msg", "no description..."))>>)
                  ELSE Finish(ReturnJson(answer), before)
    /\ UNCHANGED <<request, unencrypted, organizations, idx,
                   encrypted_organizations, public_key, serverVars>>

-----------------------------------------------------------------------------
(* test: GET /test/<path> *)

\* lines 191-193; `answer` is NetworkError or the response
test(answer) ==
    /\ pc = "test"
    /\ LET central_server_path == Tail(request.path)
           call == Call("get", central_server_path, NoHeaders, JsonNone, None, answer)
       IN
       IF answer = NetworkError
       THEN /\ response' = response
            /\ Finish(Raised("ConnectionError"), <<call>>)
       ELSE /\ answer \in BodyResponses(central_server_path)
            /\ response' = answer
            /\ Finish(ReturnJson(answer), <<call>>)
    /\ UNCHANGED <<request, auth, unencrypted, organizations, idx,
                   encrypted_organizations, public_key, serverVars>>

-----------------------------------------------------------------------------

\* every answer the environment can give to some call
Answers ==
    {NetworkError}
    \cup UNION {Responses(u) \cup BodyResponses(u) :
                    u \in {<<"task">>, <<"x">>, <<"result", "1">>, <<"result", "2">>}}

Lookups ==
    {NetworkError}
    \cup UNION {OrganizationResponses(id, <<"organization", id>>) :
                    id \in OrgIds \cup {None}}

Next ==
    \/ \E req \in Requests : Receive(req)
    \/ Respond
    \/ \E id \in OrgIds, key \in Keys : RotateKey(id, key)
    \/ proxy_task
    \/ \E lookup \in Lookups, encrypts \in BOOLEAN : proxy_task_loop(lookup, encrypts)
    \/ \E post \in Answers : proxy_task_post(post)
    \/ \E get \in Answers : proxy_results(get)
    \/ \E answer \in Answers : proxy(answer)
    \/ \E answer \in Answers : test(answer)

Spec == Init /\ [][Next]_vars

-----------------------------------------------------------------------------
(* Reading the trace of the current request *)

Handler == Route(request.method, request.path)
InTask == pc # "idle" /\ Handler = "proxy_task"
InResults == pc # "idle" /\ Handler = "proxy_results"
InProxy == pc # "idle" /\ Handler = "proxy"
HasAuthorization == "Authorization" \in DOMAIN request.headers

IsCall(e) == e.ev = "call"
IsLookup(e) == IsCall(e) /\ e.method = "get" /\ Len(e.url) = 2 /\ e.url[1] = "organization"
IsPostTask(e) == IsCall(e) /\ e.method = "post" /\ e.url = <<"task">>
IsEncrypt(e) == e.ev = "encrypt"

CallsMade == SelectSeq(trace, IsCall)
LookupCalls == SelectSeq(trace, IsLookup)
PostTaskCalls == SelectSeq(trace, IsPostTask)
EncryptCalls == SelectSeq(trace, IsEncrypt)

\* the key lookup did not yield a public key: the call raised, or the body is
\* no JSON object, or the object has no `public_key`
LookupFailed(c) ==
    \/ c.answer = NetworkError
    \/ c.answer.body.shape # "object"
    \/ "public_key" \notin DOMAIN c.answer.body.obj

\* the inbound list of organizations of a create-task request (empty if absent)
InboundOrganizations ==
    IF request.json # JsonNone /\ "organizations" \in DOMAIN request.json
    THEN request.json.organizations ELSE <<>>

LacksInput(entry) == "input" \notin DOMAIN entry

-----------------------------------------------------------------------------
(* Claims *)

\* C1: in the create-task forward, entries are processed in payload order;
\* when processing entry k fails (its input is missing, its key lookup
\* yields no public key, or the cryptor raises) nothing is done for entry
\* k+1 and POST /task is never sent; POST /task is sent only after every
\* entry was encrypted.
C1_AbortOnFailedEntry ==
    InTask =>
        /\ \A k \in 1..Len(LookupCalls) :
              LookupCalls[k].url =
                  <<"organization", Get(InboundOrganizations[k], "id", None)>>
        /\ \A k \in 1..Len(InboundOrganizations) :
              FalsyField(InboundOrganizations[k], "input", <<>>) =>
                  Len(LookupCalls) < k /\ PostTaskCalls = <<>>
        /\ \A k \in 1..Len(LookupCalls) :
              LookupFailed(LookupCalls[k]) =>
                  Len(LookupCalls) = k /\ PostTaskCalls = <<>>
        /\ result = Raised("EncryptionError") =>
              Len(LookupCalls) = Len(EncryptCalls) /\ PostTaskCalls = <<>>
        /\ PostTaskCalls # <<>> =>
              /\ Len(EncryptCalls) = Len(InboundOrganizations)
              /\ Len(PostTaskCalls) = 1

\* C2: a create-task request whose `organizations` is absent or empty, or in
\* which some entry (at any position) lacks `input`, makes no outbound call
\* at all: no key lookup and no POST /task.
C2_MalformedMakesNoCall ==
    (InTask /\ (InboundOrganizations = <<>> \/
                \E k \in 1..Len(InboundOrganizations) :
                    LacksInput(InboundOrganizations[k])))
        => CallsMade = <<>>

C4_MalformedIsReported ==
    (/\ pc = "done" /\ InTask /\ HasAuthorization /\ request.json # JsonNone
     /\ \/ "organizations" \notin DOMAIN request.json
        \/ \E k \in 1..Len(InboundOrganizations) : LacksInput(InboundOrganizations[k]))
        => result = Raised("MalformedPayload")

\* C5: when the key lookup of an organization yields no public key, the
\* create-task forward is aborted: the cryptor is never called with a
\* missing key and POST /task is never sent.
C5_LookupFailureAborts ==
    InTask =>
        /\ \A i \in 1..Len(EncryptCalls) : EncryptCalls[i].key # None
        /\ (\E k \in 1..Len(LookupCalls) : LookupFailed(LookupCalls[k]))
              => /\ PostTaskCalls = <<>>
                 /\ pc = "done" => result.kind = "raise"

\* C6: in the create-task, result and generic forwards, when the call to the
\* coordinator raises a network error the caller gets a well-defined failure:
\* no read of an unassigned response, no missing result, no success body.
C6_NetworkErrorIsFailure ==
    (/\ pc = "done"
     /\ Handler \in {"proxy_task", "proxy_results", "proxy"}
     /\ \E i \in 1..Len(CallsMade) :
           ~IsLookup(CallsMade[i]) /\ CallsMade[i].answer = NetworkError)
        => result.kind = "raise" /\ result.exc # "UnboundLocalError"

\* C7: in the create-task and result forwards the coordinator is contacted
\* only for a request that carries an Authorization header, and POST /task
\* and GET /result/{id} carry exactly the value received.
C7_CredentialPassedThrough ==
    /\ InTask =>
          \/ CallsMade = <<>>
          \/ /\ HasAuthorization
             /\ \A i \in 1..Len(PostTaskCalls) :
                   PostTaskCalls[i].headers = AuthHeaders(request.headers.Authorization)
    /\ InResults =>
          \/ CallsMade = <<>>
          \/ /\ HasAuthorization
             /\ \A i \in 1..Len(CallsMade) :
                   /\ CallsMade[i].method = "get"
                   /\ CallsMade[i].url =
                          <<"result", FormatInt(IntConverter(request.path[2]))>>
                   /\ CallsMade[i].headers = AuthHeaders(request.headers.Authorization)

\* a task was posted with the caller's token
C7_Witness ==
    /\ pc = "done" /\ InTask
    /\ Len(PostTaskCalls) = 1
    /\ request.headers.Authorization = "tokA"
    /\ PostTaskCalls[1].headers.Authorization = "tokA"

\* C8: the generic forward forwards a request without Authorization header
\* with the credential absent (None, which requests leaves out of the call)
\* and logs it, and forwards an empty Authorization value as the empty value:
\* no default stands in for a missing credential.
C8_AbsentAndEmptyKeptApart ==
    (InProxy /\ pc = "done") =>
        /\ Len(CallsMade) = 1
        /\ CallsMade[1].headers.set
        /\ IF HasAuthorization
           THEN /\ CallsMade[1].headers.Authorization = request.headers.Authorization
                /\ CallsMade[1].headers.Authorization # None
           ELSE /\ CallsMade[1].headers.Authorization = None
                /\ CallsMade[1].headers.Authorization \notin Tokens
                /\ \E i \in 1..Len(trace) :
                      trace[i] = Log("info",
                          "No authorization header found, this could lead to errors")

\* a request without the header was forwarded without a credential
C8_Witness ==
    /\ pc = "done" /\ InProxy
    /\ ~HasAuthorization
    /\ Len(CallsMade) = 1
    /\ CallsMade[1].headers.Authorization = None
    /\ CallsMade[1].answer # NetworkError

\* C9: in the generic forward, whatever status the coordinator answers with,
\* the caller receives the coordinator's (JSON) body, and a non-success
\* status is logged; the response is never swallowed.
C9_ProxyReturnsEveryResponse ==
    (/\ pc = "done" /\ InProxy
     /\ CallsMade # <<>>
     /\ CallsMade[1].answer # NetworkError
     /\ CallsMade[1].answer.body.shape # "notjson")
        => /\ result = Json(CallsMade[1].answer.body)
           /\ CallsMade[1].answer.status_code >= 300 =>
                 \E i \in 1..Len(trace) :
                     trace[i] = Log("error", <<"server response code",
                                              CallsMade[1].answer.status_code>>)

\* C10: a request to a generic path with method GET, POST, PATCH, PUT or
\* DELETE leads to exactly one outbound call with the same method, path,
\* query parameters, JSON body and Authorization; any other method is
\* forwarded as GET.
C10_ProxyForwardsEveryMethod ==
    (pc = "done" /\ request.path = <<"x">>) =>
        /\ Len(CallsMade) = 1
        /\ CallsMade[1].method =
              (IF request.method \in {"GET", "POST", "PATCH", "PUT", "DELETE"}
                  THEN Lower(request.method) ELSE "get")
        /\ CallsMade[1].url = request.path
        /\ CallsMade[1].params = request.args
        /\ CallsMade[1].json = request.json
        /\ CallsMade[1].headers =
              AuthHeaders(IF HasAuthorization THEN request.headers.Authorization
                          ELSE None)


-----------------------------------------------------------------------------
(* Claims on the result fetch *)

\* C11: a result fetch that carries a credential sends exactly one call to
\* the coordinator, a GET of /result/{id} for the id of the inbound path,
\* with the inbound credential and no payload, transforms nothing (no
\* encryption), and when the coordinator answers with a JSON body the caller
\* receives that body unchanged.
C11_ResultFetchForwarded ==
    (pc = "done" /\ InResults /\ HasAuthorization) =>
        /\ Len(CallsMade) = 1
        /\ EncryptCalls = <<>>
        /\ LET c == CallsMade[1] IN
           /\ c.method = "get"
           /\ Len(c.url) = 2
           /\ c.url[1] = "result"
           /\ IntConverter(c.url[2]) = IntConverter(request.path[2])
           /\ c.headers = AuthHeaders(request.headers.Authorization)
           /\ c.json = JsonNone
           /\ (c.answer # NetworkError /\ ~JsonFails(c.answer))
                 => result = Json(c.answer.body)

C11_Witness ==
    /\ pc = "done" /\ InResults
    /\ request.path = <<"result", "02">>
    /\ HasAuthorization
    /\ request.headers.Authorization = "tokA"
    /\ Len(CallsMade) = 1
    /\ CallsMade[1].answer # NetworkError
    /\ CallsMade[1].answer.body.shape = "object"
    /\ result = Json(CallsMade[1].answer.body)


-----------------------------------------------------------------------------
(* Claims on key rotation *)

\* C18: the relay keeps no public key from one create-task request to the
\* next: every step that encrypts an entry makes, in that same step and
\* before the encryption, its own lookup of the entry's organization, and
\* encrypts with the key of that lookup's answer; when the coordinator
\* answers with the organization, that is the organization's key at that
\* moment, also after a rotation.
C18_KeyLookedUpForEveryEncryption ==
    [][(pc = "loop" /\ Len(EncryptCalls') > Len(EncryptCalls)) =>
          LET n == Len(trace)
              c == trace'[n + 2]
              e == trace'[n + 3]
              id == Get(organizations[idx], "id", None)
          IN
          /\ Len(EncryptCalls') = Len(EncryptCalls) + 1
          /\ Len(LookupCalls') = Len(LookupCalls) + 1
          /\ IsLookup(c) /\ IsEncrypt(e)
          /\ c.url = <<"organization", id>>
          /\ c.answer # NetworkError
          /\ e.key = Get(c.answer.body.obj, "public_key", None)
          /\ (id \in OrgIds /\ c.answer.status_code = 200)
                => e.key = public_key[id]
      ]_vars

\* one request with two entries of organization 1, whose key was rotated
\* between the two lookups: the second entry is encrypted with the new key
C18_Witness ==
    /\ InTask
    /\ Len(EncryptCalls) = 2
    /\ Len(LookupCalls) = 2
    /\ LookupCalls[1].url = <<"organization", "1">>
    /\ LookupCalls[2].url = <<"organization", "1">>
    /\ EncryptCalls[1].key = "pubA"
    /\ EncryptCalls[2].key = "pubB"
    /\ public_key["1"] = "pubB"


-----------------------------------------------------------------------------
(* only_for: the endpoint guard of the central server *)

\* lines 249-252: the alias decorators
with_user_or_node == {"user", "node"}
with_user == {"user"}
with_node == {"node"}
with_container == {"container"}

Endpoints == {with_user_or_node, with_user, with_node, with_container}

\* the identity claim: the id of a user or node, or the dict of a container
IntIdentity(id) == [int |-> id]
ContainerIdentity == [node_id |-> 2, task_id |-> 1, organization_id |-> 1]

\* a bearer token that verifies, with its identity and additional claims
Jwt(identity, claims) == [valid |-> TRUE, identity |-> identity, claims |-> claims]

\* no token, or one that is expired or does not verify
BadJwt == [valid |-> FALSE]

Credentials ==
    {BadJwt,
     Jwt(IntIdentity(1), [client_type |-> "user"]),
     Jwt(IntIdentity(2), [client_type |-> "user"]),
     Jwt(IntIdentity(2), [client_type |-> "node"]),
     Jwt(IntIdentity(3), [client_type |-> "node"]),
     Jwt(ContainerIdentity, [client_type |-> "container"]),
     Jwt(IntIdentity(1), [client_type |-> "root"]),
     Jwt(IntIdentity(1), [fresh |-> FALSE])}

\* how a guarded request ends: flask_jwt_extended's own 401 answer, an
\* exception that leaves the decorator, or the value of the handler
Unauthorized == [kind |-> "401"]
Handled(principal) == [kind |-> "fn", auth |-> principal]

\* lines 111-127: obtain_auth, on the g of the request
obtain_auth(g) ==
    IF g.user # NoneObject THEN g.user
    ELSE IF g.node # NoneObject THEN g.node
    ELSE IF g.container # NoneObject THEN g.container
    ELSE NoneObject

\* line 198: g.user = g.container = g.node = None
ResetSlots(g) ==
    [type |-> g.type, user |-> NoneObject, container |-> NoneObject,
     node |-> NoneObject]

\* Step starting the decorator over when the request would end
StepRetrying(r, step, upd) ==
    guard' = [guard EXCEPT ![r] =
                 (IF upd.pc = "done" THEN [pc |-> "jwt_required"] ELSE upd)
                 @@ [hist |-> Append(guard[r].hist, step)] @@ guard[r]]

\* a request's step `step` leaves the decorator at `pc` with fields `upd`
Step(r, step, upd) ==
    guard' = [guard EXCEPT ![r] = upd @@ [hist |-> Append(guard[r].hist, step)]
                                      @@ guard[r]]

\* a request for a guarded endpoint arrives
Arrive(r, token, types) ==
    /\ guard[r].pc = "idle"
    /\ guard' = [guard EXCEPT ![r] = [pc |-> "jwt_required", token |-> token,
                                      types |-> types] @@ guard[r]]
    /\ UNCHANGED <<last_seen, now, user_rules, user_roles, role_rules, checked>>
    /\ UNCHANGED relayVars

\* line 224: jwt_required() verifies the token before the decorator runs and
\* answers 401 itself when there is none or it does not verify
jwt_required(r) ==
    /\ guard[r].pc = "jwt_required"
    /\ IF ~guard[r].token.valid
       THEN Step(r, "verify", [pc |-> "done", result |-> Unauthorized])
       ELSE Step(r, "verify", [pc |-> "decode"])
    /\ UNCHANGED <<last_seen, now, user_rules, user_roles, role_rules, checked>>
    /\ UNCHANGED relayVars

\* lines 182-186: identity, claims and g.type = claims["client_type"]
decode(r) ==
    /\ guard[r].pc = "decode"
    /\ LET identity == guard[r].token.identity
           claims == guard[r].token.claims
       IN
       IF "client_type" \notin DOMAIN claims
       THEN Step(r, "decode", [pc |-> "done", identity |-> identity,
                               result |-> Raised("KeyError")])
       ELSE Step(r, "decode", [pc |-> "types", identity |-> identity,
                               g |-> [type |-> claims.client_type]])
    /\ UNCHANGED <<last_seen, now, user_rules, user_roles, role_rules, checked>>
    /\ UNCHANGED relayVars


\* Allowed letting every kind through
AllowedAny(type, types) == TRUE

\* line 189: the negation of `g.type not in types`
Allowed(type, types) == type \in types

\* SetSlot filling the user slot whatever the kind
SetSlotAsUser(g, principal) == [g EXCEPT !.user = principal]

\* lines 202, 208, 215: g.user = user / g.node = node / g.container = identity
SetSlot(g, principal) == [g EXCEPT ![g.type] = principal]

\* TypeMatches without the comparison
TypeMatchesAlways(authenticatable, g) == TRUE

\* lines 203, 210: the asserted condition, g.user.type == g.type
TypeMatches(authenticatable, g) == authenticatable.type = g.type

\* lines 189-198 and 214-221: the allow-set check, the reset of the slots and
\* the branch on the kind; a container is its identity and needs no lookup
check(r) ==
    /\ guard[r].pc = "types"
    /\ LET g == guard[r].g IN
       IF ~Allowed(g.type, guard[r].types)
       THEN Step(r, "classify", [pc |-> "done", result |-> Raised("Exception")])
       ELSE IF g.type \in {"user", "node"}
       THEN Step(r, "classify", [pc |-> "get", g |-> ResetSlots(g)])
       ELSE IF g.type = "container"
       THEN Step(r, "classify",
                 [pc |-> "fn", g |-> SetSlot(ResetSlots(g), guard[r].identity)])
       ELSE Step(r, "classify", [pc |-> "done", g |-> ResetSlots(g),
                                 result |-> Raised("Exception")])
    /\ UNCHANGED <<last_seen, now, user_rules, user_roles, role_rules, checked>>
    /\ UNCHANGED relayVars

\* lines 242-243: Authenticatable.get(auth_id), which raises when there is no
\* such row, and auth.last_seen = utcnow() on the loaded object; `t` is the
\* reading of the clock
get(r, t) ==
    /\ guard[r].pc = "get"
    /\ t >= now
    /\ now' = t
    /\ LET auth_id == guard[r].identity.int IN
       IF auth_id \notin AuthIds
       THEN Step(r, "lookup", [pc |-> "done", result |-> Raised("NoResultFound")])
       ELSE Step(r, "lookup",
                 [pc |-> "save",
                  auth |-> [id |-> auth_id, type |-> Authenticatable[auth_id],
                            last_seen |-> t]])
    /\ UNCHANGED <<last_seen, user_rules, user_roles, role_rules, checked>>
    /\ UNCHANGED relayVars

\* SaveRelationship emptying the collection of the saved object
SaveRelationshipEmptied(table, authenticatable) ==
    [k \in DOMAIN table |-> IF k = authenticatable.id THEN {} ELSE table[k]]

\* auth.save() on a relationship of the object (User.rules, User.roles): the
\* unit of work writes what was modified, and the collection was not
SaveRelationship(table, authenticatable) == table

\* auth.save() on the column that was assigned
SaveLastSeen(table, authenticatable) ==
    [table EXCEPT ![authenticatable.id] = authenticatable.last_seen]

\* lines 244 and 201-205, 207-212: auth.save(), the slot of the kind and the
\* assertion that the row is of the declared kind
save(r) ==
    /\ guard[r].pc = "save"
    /\ LET authenticatable == guard[r].auth
           g == SetSlot(guard[r].g, authenticatable)
       IN
       /\ last_seen' = SaveLastSeen(last_seen, authenticatable)
       /\ user_rules' = SaveRelationship(user_rules, authenticatable)
       /\ user_roles' = SaveRelationship(user_roles, authenticatable)
       /\ IF ~TypeMatches(authenticatable, g)
          THEN Step(r, "save", [pc |-> "done", g |-> g,
                                result |-> Raised("AssertionError")])
          ELSE Step(r, "save", [pc |-> "fn", g |-> g])
    /\ UNCHANGED <<now, role_rules, checked>>
    /\ UNCHANGED relayVars

\* line 223: return fn(*args, **kwargs); the handler asks obtain_auth who
\* is calling
fn(r) ==
    /\ guard[r].pc = "fn"
    /\ Step(r, "fn", [pc |-> "done", result |-> Handled(obtain_auth(guard[r].g))])
    /\ UNCHANGED <<last_seen, now, user_rules, user_roles, role_rules, checked>>
    /\ UNCHANGED relayVars

\* the relay at rest while the server is observed
RelayAtRest ==
    /\ pc = "idle"
    /\ request = [method |-> "GET", path |-> <<"x">>, headers |-> [Host |-> "proxy"],
                  json |-> JsonNone, args |-> "q0"]
    /\ auth = None
    /\ unencrypted = [image |-> "img"]
    /\ organizations = <<>>
    /\ idx = 1
    /\ encrypted_organizations = <<>>
    /\ response = Unbound
    /\ trace = <<>>
    /\ result = Pending
    /\ public_key = [id \in OrgIds |-> "pubA"]

GuardInit ==
    /\ ServerStart
    /\ RelayAtRest

GuardNext ==
    \/ \E r \in Reqs, token \in Credentials, types \in Endpoints : Arrive(r, token, types)
    \/ \E r \in Reqs : jwt_required(r)
    \/ \E r \in Reqs : decode(r)
    \/ \E r \in Reqs : check(r)
    \/ \E r \in Reqs, t \in 0..MaxClock : get(r, t)
    \/ \E r \in Reqs : save(r)
    \/ \E r \in Reqs : fn(r)

GuardSpec == GuardInit /\ [][GuardNext]_vars


-----------------------------------------------------------------------------
(* Reading a guarded request *)

Steps(r) == {guard[r].hist[i] : i \in 1..Len(guard[r].hist)}
Count(r, step) == Cardinality({i \in 1..Len(guard[r].hist) : guard[r].hist[i] = step})

\* the request got as far as the allow-set check / the wrapped handler
Classified(r) == "classify" \in Steps(r)
Ran(r) == guard[r].pc = "fn" \/ "fn" \in Steps(r)
Ended(r) == guard[r].pc = "done"

\* the request ended in the step `step`
EndedIn(r, step) ==
    /\ Ended(r)
    /\ guard[r].hist[Len(guard[r].hist)] = step

\* the kind the credential declares, once it is decoded
DeclaredKind(r) == guard[r].token.claims.client_type

-----------------------------------------------------------------------------
(* Claims on the endpoint guard *)

\* C12: the wrapped handler of an endpoint guarded by only_for(types) runs
\* only for a credential whose declared kind is in `types`; a with_node
\* endpoint never runs its handler for a user or container credential and
\* runs it for a node credential (of a node that exists); and whether the
\* allow-set check lets a request through depends on the declared kind and
\* the allow-set alone.
C12_HandlerOnlyForAllowedKinds ==
    \A r \in Reqs :
        /\ Ran(r) => DeclaredKind(r) \in guard[r].types
        /\ (Classified(r) /\ guard[r].types = with_node
                /\ DeclaredKind(r) \in {"user", "container"})
              => ~Ran(r) /\ EndedIn(r, "classify")
        /\ (Ended(r) /\ Classified(r) /\ guard[r].types = with_node
                /\ DeclaredKind(r) = "node"
                /\ guard[r].identity.int \in AuthIds
                /\ Authenticatable[guard[r].identity.int] = "node")
              => guard[r].result.kind = "fn"
        /\ \A q \in Reqs :
              (Classified(r) /\ Classified(q)
                  /\ DeclaredKind(r) = DeclaredKind(q)
                  /\ guard[r].types = guard[q].types)
                => (EndedIn(r, "classify") <=> EndedIn(q, "classify"))

\* a node and a user at a with_node endpoint: one handled, one turned away
C12_Witness ==
    /\ guard["r1"].types = with_node /\ guard["r2"].types = with_node
    /\ Ended("r1") /\ Ended("r2")
    /\ Classified("r1") /\ Classified("r2")
    /\ DeclaredKind("r1") = "node" /\ guard["r1"].result.kind = "fn"
    /\ DeclaredKind("r2") = "user" /\ EndedIn("r2", "classify")


\* C13: a request whose credential does not verify or decode, or whose
\* declared kind is not in the endpoint's allow-set, ends with a typed
\* rejection, never with an exception that leaves the decorator unhandled.
C13_RejectionIsTyped ==
    \A r \in Reqs :
        (/\ Ended(r)
         /\ \/ ~guard[r].token.valid
            \/ "client_type" \notin DOMAIN guard[r].token.claims
            \/ DeclaredKind(r) \notin guard[r].types)
          => guard[r].result.kind # "raise"


\* the row the request looked up is of another kind than the credential declares
Mismatched(r) ==
    /\ "lookup" \in Steps(r)
    /\ guard[r].auth # NoneObject
    /\ guard[r].auth.type # DeclaredKind(r)

\* C14: when the credential declares user or node and the row found under
\* its id is of a different kind, the request ends in the failed assertion
\* (the code's identity mismatch error), and the wrapped handler is never
\* run with that row as principal.
C14_MismatchIsFatal ==
    \A r \in Reqs :
        Mismatched(r) =>
            /\ ~Ran(r)
            /\ guard[r].pc \in {"save", "done"}
            /\ Ended(r) => /\ guard[r].result = Raised("AssertionError")
                           /\ EndedIn(r, "save")

\* a user credential whose id is the row of a node, turned away
C14_Witness ==
    \E r \in Reqs :
        /\ Ended(r)
        /\ Mismatched(r)
        /\ DeclaredKind(r) = "user"
        /\ guard[r].auth.type = "node"
        /\ guard[r].g.user = guard[r].auth
        /\ guard[r].result = Raised("AssertionError")


\* the slots of g that hold a principal
SlotsSet(g) ==
    {k \in {"user", "node", "container"} \cap DOMAIN g : g[k] # NoneObject}

\* C15: while the wrapped handler runs (and when it has returned), exactly
\* one of g.user, g.node and g.container is set, it is the slot of the
\* credential's declared kind, and obtain_auth returns the principal in it;
\* the value the handler got from obtain_auth is that principal.
C15_ExactlyOneSlot ==
    \A r \in Reqs :
        Ran(r) =>
            LET g == guard[r].g IN
            /\ SlotsSet(g) = {DeclaredKind(r)}
            /\ g.type = DeclaredKind(r)
            /\ obtain_auth(g) = g[DeclaredKind(r)]
            /\ obtain_auth(g) # NoneObject
            /\ DeclaredKind(r) \in {"user", "node"} =>
                   /\ obtain_auth(g) = guard[r].auth
                   /\ guard[r].auth.id = guard[r].identity.int
            /\ DeclaredKind(r) = "container" => obtain_auth(g) = guard[r].identity
            /\ Ended(r) => guard[r].result = Handled(g[DeclaredKind(r)])

\* a node and a container, each handled as itself
C15_Witness ==
    /\ Ended("r1") /\ Ran("r1")
    /\ Ended("r2") /\ Ran("r2")
    /\ SlotsSet(guard["r1"].g) = {"node"}
    /\ guard["r1"].result.auth.type = "node"
    /\ SlotsSet(guard["r2"].g) = {"container"}
    /\ guard["r2"].result.auth = ContainerIdentity


\* the states of a guarded request: the credential is verified and decoded,
\* the kind is classified, and the request is Resolved (a principal is in its
\* slot and the handler is called) or Rejected (it ended before the handler)
CredentialDecoded(r) == "decode" \in Steps(r)
KindClassified(r) == "classify" \in Steps(r)
Resolved(r) ==
    /\ guard[r].pc \in {"fn", "done"}
    /\ KindClassified(r)
    /\ SlotsSet(guard[r].g) # {}
    /\ Ended(r) => guard[r].result.kind = "fn"
Rejected(r) ==
    /\ Ended(r)
    /\ guard[r].result.kind \in {"401", "raise"}

\* the order of the steps of one request
StepOrder == <<"verify", "decode", "classify", "lookup", "save", "fn">>
Position(step) == CHOOSE i \in 1..Len(StepOrder) : StepOrder[i] = step

\* C19: the steps of a guarded request happen in the order verify, decode,
\* classify, (lookup, save,) handler, none of them more than once, so that
\* decoding precedes classification and there is one classification and at
\* most one identity lookup; a request that is over is either Resolved or
\* Rejected, never both, every request under way has a next step, and a
\* request that is Resolved or Rejected stays so: a Rejected request never
\* changes again, a Resolved one keeps its principal.
C19_GuardStateMachine ==
    /\ [](\A r \in Reqs :
            LET hist == guard[r].hist IN
            /\ \A i, j \in 1..Len(hist) :
                  i < j => Position(hist[i]) < Position(hist[j])
            /\ Count(r, "decode") <= 1
            /\ Count(r, "classify") <= 1
            /\ Count(r, "lookup") <= 1
            /\ KindClassified(r) => CredentialDecoded(r)
            /\ "lookup" \in Steps(r) => KindClassified(r)
            /\ Ran(r) => KindClassified(r)
            /\ Ended(r) => (Resolved(r) /\ ~Rejected(r)) \/ (Rejected(r) /\ ~Resolved(r))
            /\ ~Ended(r) => ~Rejected(r)
            /\ guard[r].pc \notin {"idle", "done"} =>
                  ENABLED (\/ jwt_required(r) \/ decode(r) \/ check(r)
                           \/ save(r) \/ fn(r)
                           \/ \E t \in 0..MaxClock : get(r, t)))
    /\ [][\A r \in Reqs :
            /\ Rejected(r) => guard'[r] = guard[r]
            /\ Resolved(r) =>
                  /\ Resolved(r)'
                  /\ guard'[r].g = guard[r].g
                  /\ guard[r].pc = "done" => guard'[r] = guard[r]
         ]_vars

\* one request Resolved and one Rejected after its identity lookup
C19_Witness ==
    /\ Ended("r1") /\ Resolved("r1")
    /\ guard["r1"].hist = StepOrder
    /\ Ended("r2") /\ Rejected("r2")
    /\ guard["r2"].hist = <<"verify", "decode", "classify", "lookup">>


\* C20: whatever the interleaving of concurrent resolutions, several of the
\* same principal included, a step changes nothing persisted but the
\* last_seen of the identity that the stepping request resolved and saves,
\* which becomes the timestamp that request took; the direct rules and roles
\* of every user and the rules of every role stay as they were.
C20_OnlyLastSeenChanges ==
    [][/\ user_rules' = user_rules
       /\ user_roles' = user_roles
       /\ role_rules' = role_rules
       /\ \A id \in AuthIds :
             last_seen'[id] # last_seen[id] =>
                 \E r \in Reqs :
                     /\ guard[r].pc = "save"
                     /\ guard'[r].pc # "save"
                     /\ guard[r].auth.id = id
                     /\ guard[r].identity.int = id
                     /\ last_seen'[id] = guard[r].auth.last_seen
      ]_vars

\* two requests of user 1 raced: the later timestamp was saved first and the
\* earlier one last, and the user's rules and roles are what they were
C20_Witness ==
    /\ "save" \in Steps("r1") /\ "save" \in Steps("r2")
    /\ guard["r1"].auth.id = 1 /\ guard["r2"].auth.id = 1
    /\ guard["r1"].auth.last_seen = 2
    /\ guard["r2"].auth.last_seen = 1
    /\ last_seen[1] = 1
    /\ user_rules[1] = {1}
    /\ user_roles[1] = {"A"}


-----------------------------------------------------------------------------
(* User.can: the permission check *)

\* Rule.get_by_(name, scope, operation): the rule of that triple, or None
get_by_(name, scope, operation) ==
    LET found == {id \in RuleIds : Rule[id] = <<name, scope, operation>>} IN
    IF found = {} THEN NoneObject ELSE [id |-> CHOOSE id \in found : TRUE]

\* `rule in rules`, for the rules of a user or of a role
Contains(rules, rule) == rule # NoneObject /\ rule.id \in rules

\* can matching the rule of any scope
canAnyScope(u, resource, scope, operation) ==
    \E s \in Scopes :
        LET rule == get_by_(resource, s, operation) IN
        \/ Contains(user_rules[u], rule)
        \/ \E role \in user_roles[u] : Contains(role_rules[role], rule)

\* can answering from the previous call when it was the same question
canRemembered(u, resource, scope, operation) ==
    IF /\ checked.n > 0
       /\ checked.user = u
       /\ checked.rule = <<resource, scope, operation>>
    THEN checked.allowed
    ELSE LET rule == get_by_(resource, scope, operation) IN
         \/ Contains(user_rules[u], rule)
         \/ \E role \in user_roles[u] : Contains(role_rules[role], rule)

\* lines 318-320: User.can
can(u, resource, scope, operation) ==
    LET rule == get_by_(resource, scope, operation) IN
    \/ Contains(user_rules[u], rule)
    \/ \E role \in user_roles[u] : Contains(role_rules[role], rule)

\* a handler calls user.can(resource, scope, operation)
Can(u, resource, scope, operation) ==
    /\ checked.n < MaxChecks
    /\ checked' = [n |-> checked.n + 1, user |-> u,
                   rule |-> <<resource, scope, operation>>,
                   allowed |-> can(u, resource, scope, operation)]
    /\ UNCHANGED <<guard, last_seen, now, user_rules, user_roles, role_rules>>
    /\ UNCHANGED relayVars

\* administration, out of band: a rule is given to or taken from a user
GrantRule(u, id) ==
    /\ id \notin user_rules[u]
    /\ user_rules' = [user_rules EXCEPT ![u] = @ \cup {id}]
    /\ UNCHANGED <<guard, last_seen, now, user_roles, role_rules, checked>>
    /\ UNCHANGED relayVars

RevokeRule(u, id) ==
    /\ id \in user_rules[u]
    /\ user_rules' = [user_rules EXCEPT ![u] = @ \ {id}]
    /\ UNCHANGED <<guard, last_seen, now, user_roles, role_rules, checked>>
    /\ UNCHANGED relayVars

\* a role is assigned to or taken from a user
AssignRole(u, role) ==
    /\ role \notin user_roles[u]
    /\ user_roles' = [user_roles EXCEPT ![u] = @ \cup {role}]
    /\ UNCHANGED <<guard, last_seen, now, user_rules, role_rules, checked>>
    /\ UNCHANGED relayVars

UnassignRole(u, role) ==
    /\ role \in user_roles[u]
    /\ user_roles' = [user_roles EXCEPT ![u] = @ \ {role}]
    /\ UNCHANGED <<guard, last_seen, now, user_rules, role_rules, checked>>
    /\ UNCHANGED relayVars

\* a rule is added to or removed from a role
AddRoleRule(role, id) ==
    /\ id \notin role_rules[role]
    /\ role_rules' = [role_rules EXCEPT ![role] = @ \cup {id}]
    /\ UNCHANGED <<guard, last_seen, now, user_rules, user_roles, checked>>
    /\ UNCHANGED relayVars

RemoveRoleRule(role, id) ==
    /\ id \in role_rules[role]
    /\ role_rules' = [role_rules EXCEPT ![role] = @ \ {id}]
    /\ UNCHANGED <<guard, last_seen, now, user_rules, user_roles, checked>>
    /\ UNCHANGED relayVars

PermInit ==
    /\ ServerStart
    /\ RelayAtRest

PermNext ==
    \/ \E u \in UserIds, resource \in Resources, scope \in Scopes,
          operation \in Operations : Can(u, resource, scope, operation)
    \/ \E u \in UserIds, id \in RuleIds : GrantRule(u, id)
    \/ \E u \in UserIds, id \in RuleIds : RevokeRule(u, id)
    \/ \E u \in UserIds, role \in Roles : AssignRole(u, role)
    \/ \E u \in UserIds, role \in Roles : UnassignRole(u, role)
    \/ \E role \in Roles, id \in RuleIds : AddRoleRule(role, id)
    \/ \E role \in Roles, id \in RuleIds : RemoveRoleRule(role, id)

PermSpec == PermInit /\ [][PermNext]_vars


-----------------------------------------------------------------------------
(* Claims on the permission check *)

\* the rules a user holds directly or through a role, and whether one of
\* them is the rule of `triple`
EffectiveRules(u) == user_rules[u] \cup UNION {role_rules[role] : role \in user_roles[u]}
Holds(u, triple) == \E id \in EffectiveRules(u) : Rule[id] = triple

\* C16: User.can(resource, scope, operation) is true exactly when the rule
\* of that very triple is among the user's direct rules or the rules of one
\* of the user's roles; holding the rule of the same resource and operation
\* at another scope does not make it true; and a step that only adds rules
\* of other triples to what the user holds leaves the answer as it was.
C16_CanIffExactTriple ==
    /\ [](\A u \in UserIds, r \in Resources, s \in Scopes, o \in Operations :
            /\ can(u, r, s, o) <=> Holds(u, <<r, s, o>>)
            /\ \A s2 \in Scopes \ {s} :
                  (Holds(u, <<r, s2, o>>) /\ ~Holds(u, <<r, s, o>>))
                     => ~can(u, r, s, o))
    /\ [][\A u \in UserIds, r \in Resources, s \in Scopes, o \in Operations :
            (/\ EffectiveRules(u) \subseteq EffectiveRules(u)'
             /\ \A id \in EffectiveRules(u)' \ EffectiveRules(u) :
                   Rule[id] # <<r, s, o>>)
              => (can(u, r, s, o)' <=> can(u, r, s, o))
         ]_vars

\* user 1 asked for task/GLOBAL/VIEW while holding task/ORGANIZATION/VIEW
\* only, and was refused; node/GLOBAL/VIEW is held through a role alone
C16_Witness ==
    /\ checked.n > 0
    /\ checked.user = 1
    /\ checked.rule = <<"task", "GLOBAL", "VIEW">>
    /\ ~checked.allowed
    /\ Holds(1, <<"task", "ORGANIZATION", "VIEW">>)
    /\ ~Holds(1, <<"task", "GLOBAL", "VIEW">>)
    /\ 3 \notin user_rules[1]
    /\ can(1, "node", "GLOBAL", "VIEW")

\* C17: however changes to a user's rules, a user's roles and a role's rules
\* are interleaved with checks, every call of User.can answers by what the
\* user holds at the moment of the call: a grant taken away before the call
\* is not honoured, a grant given before the call is.
C17_CanAnswersAtCallTime ==
    [][checked'.n # checked.n =>
          /\ checked'.n = checked.n + 1
          /\ checked'.allowed <=> Holds(checked'.user, checked'.rule)
          /\ <<user_rules, user_roles, role_rules>>' =
                 <<user_rules, user_roles, role_rules>>
      ]_vars

\* the second check asks for task/GLOBAL/VIEW, which the user held at the
\* start, after it was taken away: refused
C17_Witness ==
    /\ checked.n = 2
    /\ checked.rule = <<"task", "GLOBAL", "VIEW">>
    /\ ~checked.allowed
    /\ ~Holds(checked.user, checked.rule)


-----------------------------------------------------------------------------
(* Claims on what the relay returns and sends *)

\* C21: whenever the create-task forward returns a body to the caller, it is
\* the body of the coordinator's response to this request's POST /task; it
\* is never the body of a key lookup's response, also when POST /task raised.
C21_ReturnsThePostResponse ==
    (pc = "done" /\ InTask /\ result.kind = "json") =>
        /\ Len(PostTaskCalls) = 1
        /\ PostTaskCalls[1].answer # NetworkError
        /\ result = Json(PostTaskCalls[1].answer.body)
        /\ \A i \in 1..Len(LookupCalls) :
              LookupCalls[i].answer # NetworkError
                 => result # Json(LookupCalls[i].answer.body)


-----------------------------------------------------------------------------
(* Claims on the last-seen timestamp *)

\* C22: a step changes the persisted last_seen of an identity only when it
\* is the step of a user or node request that becomes Resolved as that
\* identity; a request that is Rejected has changed no last_seen, and a
\* container request never saves one.
C22_LastSeenOnlyWhenResolved ==
    [][/\ \A id \in AuthIds :
             last_seen'[id] # last_seen[id] =>
                 \E r \in Reqs :
                     /\ guard[r].pc = "save"
                     /\ guard[r].auth.id = id
                     /\ DeclaredKind(r) \in {"user", "node"}
                     /\ Resolved(r)'
                     /\ guard'[r].g[DeclaredKind(r)].id = id
       /\ \A r \in Reqs :
             (Rejected(r)' \/ (Classified(r)' /\ DeclaredKind(r)' = "container"))
                => "save" \notin Steps(r)'
      ]_vars


\* C23: when the inbound request has an Authorization header, every call the
\* relay makes to the coordinator for it, on whatever route, carries that
\* credential, the key lookups of the create-task forward excepted.
C23_EveryCallCarriesCredential ==
    (pc # "idle" /\ HasAuthorization) =>
        \A i \in 1..Len(CallsMade) :
            \/ InTask /\ IsLookup(CallsMade[i])
            \/ CallsMade[i].headers = AuthHeaders(request.headers.Authorization)


\* C24: the create-task forward gives up on an entry for want of input only
\* when the entry has no `input` field; an entry whose `input` is present,
\* be it empty, is encrypted and does not end the request.
C24_OnlyAbsentInputAborts ==
    (/\ pc = "done" /\ InTask
     /\ Len(trace) > 0
     /\ trace[Len(trace)] = Log("error", "No input for organization?!"))
      => LacksInput(InboundOrganizations[idx])

====
